---------------------------- MODULE Spec2Model ----------------------------
(***************************************************************************)
(* Model of src/main.py: the Website pipeline (fetch -> extract ->         *)
(* summarize) and the asyncio coordinator in main().                       *)
(*                                                                         *)
(* Python strings are sequences of fragments (single characters, and for   *)
(* fixed literals one fragment holding the literal); str + str is \o and   *)
(* str.startswith is a prefix test on the sequence.  A parsed document     *)
(* (BeautifulSoup tree) is a sequence of nodes; a node is either a text    *)
(* node [text |-> s] or an element [tag |-> name, kids |-> <<nodes>>].     *)
(***************************************************************************)
EXTENDS Integers, Sequences, FiniteSets, TLC

(***************************************************************************)
(* Bounds of the model.                                                    *)
(***************************************************************************)
\* most URLs on one command line
MaxUrls == 2
\* longest host part of an enumerated URL string
MaxHostLen == 2
\* most nodes below <body> (or at top level) of an enumerated document
MaxNodes == 3

(***************************************************************************)
(* Strings.                                                                *)
(***************************************************************************)
StartsWith(s, p) == Len(s) >= Len(p) /\ SubSeq(s, 1, Len(p)) = p

HTTP == <<"h", "t", "t", "p", ":", "/", "/">>
HTTPS == <<"h", "t", "t", "p", "s", ":", "/", "/">>

\* Python's None (never equal to a real string: no character is "\\None")
None == <<"\\None">>

\* mutant: only the http:// prefix is recognised
ensure_http_format_http_only(url) ==
    IF ~StartsWith(url, HTTP) THEN HTTP \o url ELSE url

\* Website.ensure_http_format
ensure_http_format(url) ==
    IF ~StartsWith(url, HTTP) /\ ~StartsWith(url, HTTPS)
    THEN HTTP \o url
    ELSE url

IRRELEVANT_TAGS ==
    {"script", "style", "img", "input", "head", "title", "meta", "[document]"}

NO_TITLE_FOUND == <<"No title found">>

SYSTEM_PROMPT == "You are an assistant that analyzes the contents of a website and provides a short summary, ignoring text that might be navigation related. Respond in markdown."
USER_PROMPT_TITLE_TEMPLATE == "You are looking at a website titled "
USER_PROMPT_CONTENT_TEMPLATE == "The contents of this website is as follows; please provide a short summary of this website in markdown. If it includes news or announcements, then summarize these too"

(***************************************************************************)
(* The document tree and the BeautifulSoup operations __beautify uses.     *)
(***************************************************************************)
Text(s) == [text |-> s]
Elem(t, k) == [tag |-> t, kids |-> k]
IsTag(n) == "tag" \in DOMAIN n

RECURSIVE FindFirst(_, _)
\* Tag.find(name): the first element named `name` in document order, as a
\* sequence of length 0 (None) or 1; soup.title and soup.body are find calls
FindFirst(nodes, name) ==
    IF nodes = <<>> THEN <<>>
    ELSE LET n == Head(nodes) IN
         IF IsTag(n)
         THEN IF n.tag = name THEN <<n>>
              ELSE LET inside == FindFirst(n.kids, name) IN
                   IF inside # <<>> THEN inside
                   ELSE FindFirst(Tail(nodes), name)
         ELSE FindFirst(Tail(nodes), name)

RECURSIVE TagString(_)
\* Tag.string: the only child when it is a string, the only child's .string
\* when it is an element, None otherwise
TagString(t) ==
    IF Len(t.kids) # 1 THEN None
    ELSE IF IsTag(t.kids[1]) THEN TagString(t.kids[1])
    ELSE t.kids[1].text

\* mutant: find_all(recursive=False), only the direct children are matched
DecomposeShallow(nodes, names) ==
    SelectSeq(nodes, LAMBDA n : ~(IsTag(n) /\ n.tag \in names))

RECURSIVE Decompose(_, _)
\* for x in tag(names): x.decompose() -- every descendant element whose name
\* is in `names` is removed with its whole subtree
Decompose(nodes, names) ==
    IF nodes = <<>> THEN <<>>
    ELSE LET n == Head(nodes)
             rest == Decompose(Tail(nodes), names)
         IN IF ~IsTag(n) THEN <<n>> \o rest
            ELSE IF n.tag \in names THEN rest
            ELSE <<Elem(n.tag, Decompose(n.kids, names))>> \o rest

RECURSIVE AllStrings(_)
\* Tag._all_strings: the text nodes below a tag, in document order
AllStrings(nodes) ==
    IF nodes = <<>> THEN <<>>
    ELSE LET n == Head(nodes) IN
         (IF IsTag(n) THEN AllStrings(n.kids) ELSE <<n.text>>)
             \o AllStrings(Tail(nodes))

Whitespace == {" ", "\n", "\t"}

RECURSIVE LStrip(_)
LStrip(s) ==
    IF s # <<>> /\ Head(s) \in Whitespace THEN LStrip(Tail(s)) ELSE s

RECURSIVE RStrip(_)
RStrip(s) ==
    IF s # <<>> /\ s[Len(s)] \in Whitespace
    THEN RStrip(SubSeq(s, 1, Len(s) - 1))
    ELSE s

\* str.strip()
Strip(s) == RStrip(LStrip(s))

RECURSIVE Join(_, _)
\* separator.join(pieces)
Join(pieces, sep) ==
    IF pieces = <<>> THEN <<>>
    ELSE IF Len(pieces) = 1 THEN pieces[1]
    ELSE pieces[1] \o sep \o Join(Tail(pieces), sep)

\* the stripped, non-empty strings get_text(strip=True) joins
StrippedStrings(nodes) ==
    LET all == AllStrings(nodes)
        stripped == [k \in 1..Len(all) |-> Strip(all[k])]
    IN SelectSeq(stripped, LAMBDA s : s # <<>>)

\* Tag.get_text(separator="\n", strip=True)
get_text(tag) == Join(StrippedStrings(tag.kids), <<"\n">>)

\* Website.__beautify on a parsed page: raised is TRUE when soup.body is
\* None (calling None raises TypeError before self.title is assigned)
beautify(doc) ==
    LET t == FindFirst(doc, "title")
        b == FindFirst(doc, "body")
        title == IF t # <<>> THEN TagString(t[1]) ELSE NO_TITLE_FOUND
    IN IF b = <<>>
       THEN [raised |-> TRUE, title |-> None, text |-> None]
       ELSE [raised |-> FALSE,
             title |-> title,
             text |-> get_text(Elem("body", Decompose(b[1].kids, IRRELEVANT_TAGS)))]

\* generate_prompt(webpage_text, webpage_title): the f-string's parts in order
generate_prompt(webpage_text, webpage_title) ==
    <<[role |-> "system", content |-> <<SYSTEM_PROMPT>>],
      [role |-> "user",
       content |-> <<USER_PROMPT_TITLE_TEMPLATE, " ", webpage_title, "\n",
                     USER_PROMPT_CONTENT_TEMPLATE, ":\n", webpage_text>>]>>

(***************************************************************************)
(* The inputs the model enumerates.                                        *)
(***************************************************************************)
RECURSIVE SeqsUpTo(_, _)
\* all sequences over S of length 0..n
SeqsUpTo(S, n) ==
    IF n = 0 THEN {<<>>}
    ELSE LET shorter == SeqsUpTo(S, n - 1) IN
         shorter \cup {<<x>> \o s : x \in S, s \in {t \in shorter : Len(t) = n - 1}}

\* what a command-line URL may begin with: nothing, the two schemes, and
\* near misses of them (other case, another scheme, a truncated scheme)
UrlPrefixes ==
    {<<>>, HTTP, HTTPS,
     <<"H", "T", "T", "P", ":", "/", "/">>,
     <<"f", "t", "p", ":", "/", "/">>,
     <<"h", "t", "t", "p", ":", "/">>,
     <<"h", "t", "t", "p", "s", ":", "/">>,
     <<"h", "t", "t", "p">>,
     <<"/", "/">>}

UrlInputs ==
    {p \o h : p \in UrlPrefixes, h \in SeqsUpTo({"a", ".", "/"}, MaxHostLen)}

\* the URLs of the coordinator runs
SmallUrls == {<<"a", ".", "b">>, HTTPS \o <<"c">>}

UrlLists == SeqsUpTo(SmallUrls, MaxUrls) \ {<<>>}

GenTexts == {<<"x">>, <<" ", "y", " ">>, <<" ">>}
\* elements that hold any children; "head" is an excluded tag, "p" is not
ContainerTags == {"p", "head"}
\* html.parser gives a script element at most one text child
RawTags == {"script"}

RECURSIVE Forests(_)
RECURSIVE Trees(_)
\* the node sequences of exactly n nodes a parser can produce (no two
\* adjacent text nodes: the parser merges them)
Forests(n) ==
    IF n = 0 THEN {<<>>}
    ELSE UNION {
           {<<c[1]>> \o c[2] :
              c \in {d \in Trees(k) \X Forests(n - k) :
                       ~(~IsTag(d[1]) /\ d[2] # <<>> /\ ~IsTag(d[2][1]))}}
           : k \in 1..n }

Trees(k) ==
    IF k = 1
    THEN {Text(s) : s \in GenTexts}
             \cup {Elem(t, <<>>) : t \in ContainerTags \cup RawTags}
    ELSE {Elem(t, f) : t \in ContainerTags, f \in Forests(k - 1)}
             \cup (IF k = 2 THEN {Elem(t, <<Text(s)>>) : t \in RawTags, s \in GenTexts}
                   ELSE {})

ForestsUpTo(n) == UNION {Forests(k) : k \in 0..n}

TitleParts ==
    {<<>>,
     <<Elem("title", <<Text(<<"T">>)>>)>>,
     <<Elem("title", <<>>)>>}

\* the documents of the extraction runs: an optional title element, then
\* either a body element or the same nodes with no body around them
Docs ==
    {t \o <<Elem("body", f)>> : t \in TitleParts, f \in ForestsUpTo(MaxNodes)}
        \cup {t \o f : t \in TitleParts, f \in ForestsUpTo(MaxNodes)}

\* the pages the servers of the coordinator runs answer with
PageExample ==
    <<Elem("html",
           <<Elem("head", <<Elem("title", <<Text(<<"T">>)>>)>>),
             Elem("body", <<Elem("script", <<Text(<<"x">>)>>),
                            Elem("p", <<Text(<<"H", "i">>)>>)>>)>>)>>
PageNoBody == <<Elem("title", <<Text(<<"T">>)>>), Elem("p", <<Text(<<"x">>)>>)>>
SmallPages == {PageExample, PageNoBody}
PageNoTitle == <<Elem("body", <<Elem("p", <<Text(<<"x">>)>>)>>)>>

\* response.choices[0].message.content, as the service may answer
Summaries == {<<"# A">>, <<"# B">>}

\* HTTP statuses a server may answer with
Statuses == {200, 404}

(***************************************************************************)
(* State.                                                                  *)
(***************************************************************************)
VARIABLES
    api_key,        \* whether OPENAI_API_KEY is set in the environment
    scrape_method,  \* --scrape-method as typed on the command line
    urls,           \* args.urls, as typed
    corpus,         \* the pages the servers can answer with
    main_pc,        \* where main() is
    wb,             \* the Website objects, in input order
    pc,             \* where each scrape_and_summarize task is
    err,            \* the exception each task ended with
    http_status,    \* response.status of each session.get (0: no response)
    content,        \* the page each fetch read: <<>> or <<page>>
    thr,            \* where each executor thread (_scrape_using_selenium_sync) is
    browser,        \* each pipeline's Chrome process
    prompt,         \* the messages each summarize sent to the service
    ret,            \* each task's return value
    done_order,     \* the tasks in the order they finished
    results,        \* what asyncio.gather returned
    n_fetch,        \* fetches each pipeline began: GET requests sent, browser launches
    n_call,         \* requests each pipeline sent to the text-generation service
    output          \* what was printed, one entry per print call

vars == <<api_key, scrape_method, urls, corpus, main_pc, wb, pc, err,
          http_status, content, thr, browser, prompt, ret, done_order,
          results, output, n_fetch, n_call>>

taskvars == <<pc, err, ret, done_order>>
fetchvars == <<http_status, content, thr, browser, n_fetch>>
argvars == <<api_key, scrape_method, urls, corpus>>

Idx == 1..Len(wb)

SCRAPE_CHOICES == {"selenium", "requests"}
DEFAULT_MODEL == "gpt-4o-mini"
DEFAULT_CHROMEDRIVER_PATH == "./chromedriver-linux64/chromedriver"
DEFAULT_CHROME_BINARY_PATH == "./chrome-linux64/chrome"

\* print("\n" + "-" * 80 + "\n")
DELIMITER ==
    <<"\n", "--------------------------------------------------------------------------------", "\n">>

\* Website.__init__
Website(url, chromedriver_path, chrome_binary_path, model) ==
    [url |-> ensure_http_format(url),
     title |-> None,
     text |-> None,
     summarized |-> None,
     chromedriver_path |-> chromedriver_path,
     chrome_binary_path |-> chrome_binary_path,
     model |-> model]

\* the state before main() runs, for a command line and a set of pages
InitWith(U, P) ==
    /\ api_key \in BOOLEAN
    /\ scrape_method \in SCRAPE_CHOICES \cup {"curl"}
    /\ urls \in U
    /\ corpus \in P
    /\ main_pc = "start"
    /\ wb = <<>>
    /\ pc = <<>>
    /\ err = <<>>
    /\ http_status = <<>>
    /\ content = <<>>
    /\ thr = <<>>
    /\ browser = <<>>
    /\ prompt = <<>>
    /\ n_fetch = <<>>
    /\ n_call = <<>>
    /\ ret = <<>>
    /\ done_order = <<>>
    /\ results = <<>>
    /\ output = <<>>

Init == InitWith(UrlLists, {SmallPages})

(***************************************************************************)
(* main(), up to the await of asyncio.gather.                              *)
(***************************************************************************)
\* lines 173-183: os.environ[...] = None raises TypeError; argparse exits on
\* a --scrape-method outside its choices; else one Website and one coroutine
\* per URL, handed to gather
MainStart ==
    /\ main_pc = "start"
    /\ IF ~api_key
       THEN /\ main_pc' = "raised"
            /\ UNCHANGED <<wb, pc, err, http_status, content, thr, browser, n_fetch,
                           prompt, n_call, ret>>
       ELSE IF scrape_method \notin SCRAPE_CHOICES
       THEN /\ main_pc' = "exit"
            /\ UNCHANGED <<wb, pc, err, http_status, content, thr, browser, n_fetch,
                           prompt, n_call, ret>>
       ELSE /\ main_pc' = "gather"
            /\ wb' = [i \in 1..Len(urls) |->
                        Website(urls[i], DEFAULT_CHROMEDRIVER_PATH,
                                DEFAULT_CHROME_BINARY_PATH, DEFAULT_MODEL)]
            /\ pc' = [i \in 1..Len(urls) |-> "created"]
            /\ err' = [i \in 1..Len(urls) |-> "none"]
            /\ http_status' = [i \in 1..Len(urls) |-> 0]
            /\ content' = [i \in 1..Len(urls) |-> <<>>]
            /\ thr' = [i \in 1..Len(urls) |-> "idle"]
            /\ browser' = [i \in 1..Len(urls) |-> "none"]
            /\ prompt' = [i \in 1..Len(urls) |-> <<>>]
            /\ n_fetch' = [i \in 1..Len(urls) |-> 0]
            /\ n_call' = [i \in 1..Len(urls) |-> 0]
            /\ ret' = [i \in 1..Len(urls) |-> None]
    /\ UNCHANGED <<argvars, done_order, results, output>>

(***************************************************************************)
(* One scrape_and_summarize task, from await to await.                     *)
(***************************************************************************)
\* the task ends with exception e
Raise(i, e) ==
    /\ pc' = [pc EXCEPT ![i] = "raised"]
    /\ err' = [err EXCEPT ![i] = e]
    /\ done_order' = Append(done_order, i)
    /\ UNCHANGED ret

\* mutant: title and text kept on the class, shared by every Website
summarize_messages_shared(w) == generate_prompt(wb[1].title, wb[1].text)

\* the messages argument of line 124: generate_prompt(self.title, self.text)
summarize_messages(w) == generate_prompt(w.title, w.text)

\* summarize() up to its await: the request to the service is sent
EnterSummarize(i, w) ==
    /\ prompt' = [prompt EXCEPT ![i] = summarize_messages(w)]
    /\ n_call' = [n_call EXCEPT ![i] = @ + 1]
    /\ pc' = [pc EXCEPT ![i] = "model"]
    /\ UNCHANGED <<err, ret, done_order>>

\* the event loop runs what is ready first in, first out: the tasks gather
\* scheduled take their first step in input order, before any I/O
\* completion or done-callback is handled
AllStarted == \A j \in Idx : pc[j] # "created"

\* mutant: summarize is awaited before the page is scraped
StartPipelineSummarizeFirst(i) ==
    /\ main_pc = "gather"
    /\ pc[i] = "created"
    /\ \A j \in 1..(i - 1) : pc[j] # "created"
    /\ EnterSummarize(i, wb[i])
    /\ UNCHANGED <<argvars, main_pc, wb, fetchvars, results, output>>

\* mutant: any other scrape method falls back to requests
StartPipelineDefaultRequests(i) ==
    /\ main_pc = "gather"
    /\ pc[i] = "created"
    /\ \A j \in 1..(i - 1) : pc[j] # "created"
    /\ IF scrape_method = "selenium"
       THEN /\ pc' = [pc EXCEPT ![i] = "executor"]
            /\ thr' = [thr EXCEPT ![i] = "queued"]
            /\ UNCHANGED <<err, ret, done_order, n_fetch>>
       ELSE /\ pc' = [pc EXCEPT ![i] = "get"]
            /\ n_fetch' = [n_fetch EXCEPT ![i] = @ + 1]
            /\ UNCHANGED <<err, ret, done_order, thr>>
    /\ UNCHANGED <<argvars, main_pc, wb, http_status, content, browser,
                   prompt, n_call, results, output>>

\* lines 130-136 and the fetch up to its first await
StartPipeline(i) ==
    /\ main_pc = "gather"
    /\ pc[i] = "created"
    /\ \A j \in 1..(i - 1) : pc[j] # "created"
    /\ IF scrape_method = "requests"
       THEN /\ pc' = [pc EXCEPT ![i] = "get"]
            /\ n_fetch' = [n_fetch EXCEPT ![i] = @ + 1]
            /\ UNCHANGED <<err, ret, done_order, thr>>
       ELSE IF scrape_method = "selenium"
       THEN /\ pc' = [pc EXCEPT ![i] = "executor"]
            /\ thr' = [thr EXCEPT ![i] = "queued"]
            /\ UNCHANGED <<err, ret, done_order, n_fetch>>
       ELSE /\ Raise(i, "ValueError")
            /\ UNCHANGED <<thr, n_fetch>>
    /\ UNCHANGED <<argvars, main_pc, wb, http_status, content, browser,
                   prompt, n_call, results, output>>

\* mutant: a failed request is sent again, up to three times
GetRespondsRetry(i) ==
    /\ main_pc = "gather"
    /\ pc[i] = "get"
    /\ AllStarted
    /\ \/ /\ n_fetch[i] < 3
          /\ n_fetch' = [n_fetch EXCEPT ![i] = @ + 1]
          /\ UNCHANGED <<taskvars, http_status>>
       \/ /\ \E st \in Statuses : http_status' = [http_status EXCEPT ![i] = st]
          /\ pc' = [pc EXCEPT ![i] = "read"]
          /\ UNCHANGED <<err, ret, done_order, n_fetch>>
    /\ UNCHANGED <<argvars, main_pc, wb, content, thr, browser, prompt, n_call,
                   results, output>>

\* mutant: the pipelines are awaited one after the other
GetRespondsInTurn(i) ==
    /\ main_pc = "gather"
    /\ pc[i] = "get"
    /\ AllStarted
    /\ \A j \in 1..(i - 1) : pc[j] \in {"done", "raised"}
    /\ \/ /\ Raise(i, "ClientError")
          /\ UNCHANGED http_status
       \/ /\ \E st \in Statuses : http_status' = [http_status EXCEPT ![i] = st]
          /\ pc' = [pc EXCEPT ![i] = "read"]
          /\ UNCHANGED <<err, ret, done_order>>
    /\ UNCHANGED <<argvars, main_pc, wb, content, thr, browser, n_fetch, prompt,
                   n_call, results, output>>

\* line 77: session.get answers with some status, or the connection fails;
\* the status is not looked at
GetResponds(i) ==
    /\ main_pc = "gather"
    /\ pc[i] = "get"
    /\ AllStarted
    /\ \/ /\ Raise(i, "ClientError")
          /\ UNCHANGED http_status
       \/ /\ \E st \in Statuses : http_status' = [http_status EXCEPT ![i] = st]
          /\ pc' = [pc EXCEPT ![i] = "read"]
          /\ UNCHANGED <<err, ret, done_order>>
    /\ UNCHANGED <<argvars, main_pc, wb, content, thr, browser, n_fetch, prompt, n_call,
                   results, output>>

\* lines 78-80, then line 137 up to the await in summarize: the body is read
\* (or the read fails), __beautify extracts it, the prompt is built and sent
ReadResponds(i) ==
    /\ main_pc = "gather"
    /\ pc[i] = "read"
    /\ AllStarted
    /\ \/ /\ Raise(i, "ClientError")
          /\ UNCHANGED <<wb, content, prompt, n_call>>
       \/ \E page \in corpus :
            LET r == beautify(page)
                w == [wb[i] EXCEPT !.title = r.title, !.text = r.text]
            IN /\ content' = [content EXCEPT ![i] = <<page>>]
               /\ IF r.raised
                  THEN /\ Raise(i, "TypeError")
                       /\ UNCHANGED <<wb, prompt, n_call>>
                  ELSE /\ wb' = [wb EXCEPT ![i] = w]
                       /\ EnterSummarize(i, w)
    /\ UNCHANGED <<argvars, main_pc, http_status, thr, browser, n_fetch, results, output>>

\* lines 122-128: the service answers, or the call fails
ModelResponds(i) ==
    /\ main_pc = "gather"
    /\ pc[i] = "model"
    /\ AllStarted
    /\ \/ /\ Raise(i, "APIError")
          /\ UNCHANGED wb
       \/ \E s \in Summaries :
            /\ wb' = [wb EXCEPT ![i].summarized = s]
            /\ ret' = [ret EXCEPT ![i] = s]
            /\ pc' = [pc EXCEPT ![i] = "done"]
            /\ done_order' = Append(done_order, i)
            /\ UNCHANGED err
    /\ UNCHANGED <<argvars, main_pc, fetchvars, prompt, n_call, results, output>>

(***************************************************************************)
(* The rendered-browser fetch: _scrape_using_selenium_sync runs in an      *)
(* executor thread while the task awaits the executor's future.            *)
(***************************************************************************)
\* lines 90-99: the thread starts and webdriver.Chrome launches the browser,
\* or fails to
ChromeLaunch(i) ==
    /\ thr[i] = "queued"
    /\ n_fetch' = [n_fetch EXCEPT ![i] = @ + 1]
    /\ \/ /\ thr' = [thr EXCEPT ![i] = "raised"]
          /\ UNCHANGED browser
       \/ /\ thr' = [thr EXCEPT ![i] = "get"]
          /\ browser' = [browser EXCEPT ![i] = "running"]
    /\ UNCHANGED <<argvars, main_pc, wb, taskvars, http_status, content,
                   prompt, n_call, results, output>>

\* line 101: driver.get(self.url) returns or raises
DriverGet(i) ==
    /\ thr[i] = "get"
    /\ \/ thr' = [thr EXCEPT ![i] = "raised"]
       \/ thr' = [thr EXCEPT ![i] = "sleep"]
    /\ UNCHANGED <<argvars, main_pc, wb, taskvars, http_status, content,
                   browser, n_fetch, prompt, n_call, results, output>>

\* line 102: time.sleep(5) in the worker thread
Sleep(i) ==
    /\ thr[i] = "sleep"
    /\ thr' = [thr EXCEPT ![i] = "source"]
    /\ UNCHANGED <<argvars, main_pc, wb, taskvars, http_status, content,
                   browser, n_fetch, prompt, n_call, results, output>>

\* lines 103-106: driver.page_source is read (or raises), then driver.quit(),
\* then __beautify
PageSourceQuit(i) ==
    /\ thr[i] = "source"
    /\ UNCHANGED n_fetch
    /\ \/ /\ thr' = [thr EXCEPT ![i] = "raised"]
          /\ UNCHANGED <<wb, content, browser>>
       \/ \E page \in corpus :
            LET r == beautify(page) IN
            /\ content' = [content EXCEPT ![i] = <<page>>]
            /\ browser' = [browser EXCEPT ![i] = "quit"]
            /\ IF r.raised
               THEN /\ thr' = [thr EXCEPT ![i] = "raised"]
                    /\ UNCHANGED wb
               ELSE /\ thr' = [thr EXCEPT ![i] = "returned"]
                    /\ wb' = [wb EXCEPT ![i].title = r.title, ![i].text = r.text]
    /\ UNCHANGED <<argvars, main_pc, taskvars, http_status, prompt, n_call, results,
                   output>>

\* lines 85-87, then line 137 up to the await in summarize: the executor's
\* future is done, with the thread's result or its exception
SeleniumReturns(i) ==
    /\ main_pc = "gather"
    /\ pc[i] = "executor"
    /\ AllStarted
    /\ thr[i] \in {"returned", "raised"}
    /\ IF thr[i] = "raised"
       THEN /\ Raise(i, IF content[i] # <<>> THEN "TypeError"
                        ELSE "WebDriverException")
            /\ UNCHANGED <<prompt, n_call>>
       ELSE EnterSummarize(i, wb[i])
    /\ UNCHANGED <<argvars, main_pc, wb, fetchvars, results, output>>

(***************************************************************************)
(* asyncio.gather, asyncio.run and the printing loop.                      *)
(***************************************************************************)
\* mutant: results collected as the tasks finish
GatherResultsAsCompleted == [k \in Idx |-> ret[done_order[k]]]

\* gather's result list: the task results in the order of the awaitables
GatherResults == [k \in Idx |-> ret[k]]

\* gather (return_exceptions=False) propagates the first exception
GatherSeesException == \E i \in Idx : pc[i] = "raised"

\* mutant: gather(return_exceptions=True), every finished task counts
GatherSeesAllFinished == \A i \in Idx : pc[i] \in {"done", "raised"}

\* gather returns once every awaitable has returned
GatherSeesAllDone == \A i \in Idx : pc[i] = "done"

\* lines 183, 191-192: the exception leaves main(); asyncio.run cancels the
\* tasks still pending (an executor call that has not started is cancelled
\* with its future, a running thread is not) and closes the loop
GatherRaises ==
    /\ main_pc = "gather"
    /\ AllStarted
    /\ GatherSeesException
    /\ main_pc' = "raised"
    /\ pc' = [i \in Idx |-> IF pc[i] \in {"done", "raised"} THEN pc[i]
                            ELSE "cancelled"]
    /\ err' = [i \in Idx |-> IF pc[i] \in {"done", "raised"} THEN err[i]
                             ELSE "CancelledError"]
    /\ thr' = [i \in Idx |-> IF thr[i] = "queued" THEN "cancelled" ELSE thr[i]]
    /\ UNCHANGED <<argvars, wb, ret, done_order, http_status, content,
                   browser, n_fetch, prompt, n_call, results, output>>

\* lines 183-185: gather returns the results; the first delimiter is printed
GatherReturns ==
    /\ main_pc = "gather"
    /\ GatherSeesAllDone
    /\ results' = GatherResults
    /\ output' = <<DELIMITER>>
    /\ main_pc' = "print"
    /\ UNCHANGED <<argvars, wb, taskvars, fetchvars, prompt, n_call>>

\* mutant: the normalized URL of the Website is printed
PrintedUrlNormalized(k) == wb[k].url

\* the url of line 186: zip(args.urls, results)
PrintedUrl(k) == urls[k]

\* f"Summary for {url}:\n{summary}\n"
Block(url, summary) == <<"Summary for ", url, ":\n", summary, "\n">>

\* lines 186-188: one iteration of the loop prints a block and a delimiter
PrintBlock ==
    /\ main_pc = "print"
    /\ LET k == (Len(output) + 1) \div 2
           n == IF Len(urls) < Len(results) THEN Len(urls) ELSE Len(results)
       IN /\ k <= n
          /\ output' = output \o <<Block(PrintedUrl(k), results[k]), DELIMITER>>
          /\ main_pc' = IF k = n THEN "done" ELSE "print"
    /\ UNCHANGED <<argvars, wb, taskvars, fetchvars, prompt, n_call, results>>

Next ==
    \/ MainStart
    \/ \E i \in Idx : StartPipeline(i)
    \/ \E i \in Idx : GetResponds(i)
    \/ \E i \in Idx : ReadResponds(i)
    \/ \E i \in Idx : ModelResponds(i)
    \/ \E i \in Idx : ChromeLaunch(i)
    \/ \E i \in Idx : DriverGet(i)
    \/ \E i \in Idx : Sleep(i)
    \/ \E i \in Idx : PageSourceQuit(i)
    \/ \E i \in Idx : SeleniumReturns(i)
    \/ GatherRaises
    \/ GatherReturns
    \/ PrintBlock

Spec == Init /\ [][Next]_vars

\* asyncio runs a done task's callbacks: gather's exception reaches main
SpecFair == Spec /\ WF_vars(GatherRaises)

(***************************************************************************)
(* Website construction on every enumerated URL string, up to the request. *)
(***************************************************************************)
InitUrl == InitWith({<<u>> : u \in UrlInputs}, {SmallPages})

NextUrl ==
    \/ MainStart
    \/ \E i \in Idx : StartPipeline(i)
    \/ \E i \in Idx : GetResponds(i)
    \/ \E i \in Idx : ChromeLaunch(i)
    \/ \E i \in Idx : DriverGet(i)

SpecUrl == InitUrl /\ [][NextUrl]_vars

(***************************************************************************)
(* The plain-HTTP pipeline of one URL on every enumerated document, up to  *)
(* the request to the service.                                             *)
(***************************************************************************)
InitExtract ==
    /\ InitWith({<<u>> : u \in SmallUrls}, {{d} : d \in Docs})
    /\ api_key
    /\ scrape_method = "requests"
    /\ urls[1] = <<"a", ".", "b">>

NextExtract ==
    \/ MainStart
    \/ \E i \in Idx : StartPipeline(i)
    \/ \E i \in Idx : GetResponds(i)
    \/ \E i \in Idx : ReadResponds(i)

SpecExtract == InitExtract /\ [][NextExtract]_vars

(***************************************************************************)
(* Properties.                                                             *)
(***************************************************************************)
\* the blocks printed so far are output[2], output[4], ...
PrintedBlocks == {k \in 1..Len(output) : 2 * k <= Len(output)}

AllSucceeded == wb # <<>> /\ \A i \in Idx : pc[i] = "done"

\* C1: when all pipelines succeed, the i-th printed block carries the i-th
\* input URL and the summary produced by the pipeline started for that URL,
\* whatever the order in which the pipelines completed.
C1_OutputOrderIsInputOrder ==
    AllSucceeded =>
        \A k \in PrintedBlocks :
            /\ output[2 * k][2] = urls[k]
            /\ output[2 * k][4] = wb[k].summarized

\* C1 witness: two pipelines succeeded with different summaries, the second
\* completed first, and both blocks are printed.
C1_Witness ==
    /\ main_pc = "done"
    /\ Len(urls) >= 2
    /\ done_order[1] = 2
    /\ wb[1].summarized # wb[2].summarized
    /\ urls[1] # urls[2]
    /\ Len(output) >= 5

\* C2: a pipeline that raises neither cancels another pipeline nor keeps a
\* successfully produced summary out of the output: no task is ever
\* cancelled, and once main() has ended every completed pipeline's summary
\* has been printed with its URL.
C2_FailureIsolated ==
    \A i \in Idx :
        /\ pc[i] # "cancelled"
        /\ (main_pc \in {"raised", "done"} /\ pc[i] = "done") =>
               /\ 2 * i <= Len(output)
               /\ output[2 * i][2] = urls[i]
               /\ output[2 * i][4] = wb[i].summarized

SomePipelineRaised == \E i \in Idx : pc[i] = "raised"

\* C3: once any pipeline has raised, nothing is printed for any URL (main
\* never reaches the printing loop), and the run ends with the error.
C3_AnyErrorAbortsRun ==
    /\ [](SomePipelineRaised => output = <<>> /\ main_pc \in {"gather", "raised"})
    /\ (SomePipelineRaised ~> main_pc = "raised")

\* C3 witness: one pipeline completed successfully, another raised, the run
\* ended with the error and printed nothing.
C3_Witness ==
    /\ main_pc = "raised"
    /\ \E i, j \in Idx : pc[i] = "done" /\ pc[j] = "raised"
    /\ output = <<>>

IsSuccessStatus(st) == 200 <= st /\ st < 300

\* C4: in the plain-HTTP strategy a response with a non-success status is
\* fatal for its Target: its body is never extracted and the summarizer is
\* never called.
C4_ErrorStatusIsFatal ==
    \A i \in Idx :
        (http_status[i] # 0 /\ ~IsSuccessStatus(http_status[i])) =>
            /\ pc[i] \notin {"model", "done"}
            /\ wb[i].title = None
            /\ wb[i].text = None
            /\ prompt[i] = <<>>

\* C5: once the rendered-browser fetch has returned or raised, the browser
\* it launched is not running any more.
C5_BrowserAlwaysQuit ==
    \A i \in Idx : thr[i] \in {"returned", "raised"} => browser[i] # "running"

HasBody(doc) == FindFirst(doc, "body") # <<>>

\* C6: extraction of markup with no body element does not raise: the text is
\* the empty string and the pipeline goes on to summarization.
C6_NoBodyYieldsEmptyText ==
    \A i \in Idx :
        (content[i] # <<>> /\ ~HasBody(content[i][1])) =>
            /\ err[i] = "none"
            /\ pc[i] = "model"
            /\ wb[i].text = <<>>

HasHttpScheme(u) == StartsWith(u, HTTP) \/ StartsWith(u, HTTPS)

\* a scheme is what precedes "://"
HasExplicitScheme(u) ==
    \E k \in 2..Len(u) : k + 2 <= Len(u) /\ SubSeq(u, k, k + 2) = <<":", "/", "/">>

C8_PromptEmbedsTitleAndText ==
    \A i \in Idx :
        prompt[i] # <<>> =>
            /\ prompt[i][2].role = "user"
            /\ prompt[i][2].content[1] = USER_PROMPT_TITLE_TEMPLATE
            /\ prompt[i][2].content[3] = wb[i].title
            /\ prompt[i][2].content[5] = USER_PROMPT_CONTENT_TEMPLATE
            /\ prompt[i][2].content[7] = wb[i].text

\* the tag types the extraction is to drop
ExcludedTagTypes == {"script", "style", "img", "input", "meta", "head", "title"}

RECURSIVE TextsWhere(_, _, _)
\* the text nodes below `nodes` that lie inside an element of an excluded
\* tag type (want = TRUE) or inside none (want = FALSE), in document order
TextsWhere(nodes, inside, want) ==
    IF nodes = <<>> THEN <<>>
    ELSE LET n == Head(nodes) IN
         (IF IsTag(n)
          THEN TextsWhere(n.kids, inside \/ n.tag \in ExcludedTagTypes, want)
          ELSE IF inside = want THEN <<n.text>> ELSE <<>>)
             \o TextsWhere(Tail(nodes), inside, want)

SeqRange(s) == {s[k] : k \in 1..Len(s)}

NonBlank(texts) == SelectSeq(texts, LAMBDA t : Strip(t) # <<>>)

RECURSIVE SplitLines(_)
\* text.split("\n"), and no piece at all for the empty string
SplitLines(s) ==
    IF s = <<>> THEN <<>>
    ELSE LET cut == {k \in 1..Len(s) : s[k] = "\n"} IN
         IF cut = {} THEN <<s>>
         ELSE LET k == CHOOSE c \in cut : \A d \in cut : c <= d IN
              <<SubSeq(s, 1, k - 1)>> \o SplitLines(SubSeq(s, k + 1, Len(s)))

\* C9: no text inside an element of an excluded tag type within the body
\* appears in the extracted text, and the text outside every such element
\* is kept (stripped, in document order).
C9_ExcludedTextRemoved ==
    \A i \in Idx :
        (content[i] # <<>> /\ HasBody(content[i][1]) /\ pc[i] = "model") =>
            LET body == FindFirst(content[i][1], "body")[1]
                dropped == NonBlank(TextsWhere(body.kids, FALSE, TRUE))
                kept == NonBlank(TextsWhere(body.kids, FALSE, FALSE))
                lines == SplitLines(wb[i].text)
            IN /\ \A t \in SeqRange(dropped) \ SeqRange(kept) :
                      Strip(t) \notin SeqRange(lines)
               /\ lines = [k \in 1..Len(kept) |-> Strip(kept[k])]

\* C9 witness: a body with non-blank text inside an excluded element and
\* non-blank text outside, extracted, with only the latter in the text.
C9_Witness ==
    \E i \in Idx :
        /\ content[i] # <<>>
        /\ HasBody(content[i][1])
        /\ pc[i] = "model"
        /\ LET body == FindFirst(content[i][1], "body")[1] IN
           /\ NonBlank(TextsWhere(body.kids, FALSE, TRUE)) = <<<<"x">>>>
           /\ NonBlank(TextsWhere(body.kids, FALSE, FALSE)) = <<<<" ", "y", " ">>>>
        /\ wb[i].text = <<"y">>

\* C10: nothing is printed before every pipeline has completed, and when
\* main() is done there is exactly one block per command-line URL, holding
\* that URL as typed and its pipeline's summary, between delimiters.
C10_OneBlockPerUrlAfterAll ==
    /\ output # <<>> => AllSucceeded
    /\ main_pc = "done" =>
          /\ Len(output) = 2 * Len(urls) + 1
          /\ \A k \in 1..Len(urls) :
                 /\ output[2 * k - 1] = DELIMITER
                 /\ output[2 * k] =
                        <<"Summary for ", urls[k], ":\n", wb[k].summarized, "\n">>
          /\ output[Len(output)] = DELIMITER

\* C10 witness: the same scheme-less URL given twice, two blocks printed.
C10_Witness ==
    /\ main_pc = "done"
    /\ Len(urls) = 2
    /\ urls[1] = urls[2]
    /\ ~HasHttpScheme(urls[1])
    /\ Len(output) = 5

(***************************************************************************)
(* More specifications.                                                    *)
(***************************************************************************)
\* every step pipeline i can take: its task's and its executor thread's
PipelineStep(i) ==
    /\ i \in Idx
    /\ \/ StartPipeline(i)
       \/ GetResponds(i)
       \/ ReadResponds(i)
       \/ ModelResponds(i)
       \/ ChromeLaunch(i)
       \/ DriverGet(i)
       \/ Sleep(i)
       \/ PageSourceQuit(i)
       \/ SeleniumReturns(i)

\* The same URL is given one or more times.
\* main() runs, and a task takes its first step (which awaits nothing) as
\* soon as the loop reaches it; whether a fetch or a model call ever answers
\* is left open
InitHang ==
    /\ InitWith({u \in UrlLists : \A k \in 1..Len(u) : u[k] = <<"a", ".", "b">>},
                {SmallPages})
    /\ api_key
    /\ scrape_method \in SCRAPE_CHOICES

SpecHang ==
    /\ InitHang
    /\ [][Next]_vars
    /\ WF_vars(MainStart)
    /\ \A j \in 1..MaxUrls : WF_vars(j \in Idx /\ StartPipeline(j))

\* the same URL given one or more times, servers with two different
\* extractable pages
InitIso ==
    /\ InitWith({u \in UrlLists : \A k \in 1..Len(u) : u[k] = <<"a", ".", "b">>},
                {SmallPages \cup {PageNoTitle}})
    /\ api_key
    /\ scrape_method \in SCRAPE_CHOICES

SpecIso == InitIso /\ [][Next]_vars

\* lines 178-183 run by a caller that passes any scrape method string to
\* scrape_and_summarize (argparse is not in the way): the Websites and their
\* tasks exist and gather is awaited
InitMethod ==
    /\ api_key = TRUE
    /\ scrape_method \in SCRAPE_CHOICES \cup {"curl", ""}
    /\ urls \in UrlLists
    /\ corpus = SmallPages
    /\ main_pc = "gather"
    /\ wb = [i \in 1..Len(urls) |->
               Website(urls[i], DEFAULT_CHROMEDRIVER_PATH,
                       DEFAULT_CHROME_BINARY_PATH, DEFAULT_MODEL)]
    /\ pc = [i \in 1..Len(urls) |-> "created"]
    /\ err = [i \in 1..Len(urls) |-> "none"]
    /\ http_status = [i \in 1..Len(urls) |-> 0]
    /\ content = [i \in 1..Len(urls) |-> <<>>]
    /\ thr = [i \in 1..Len(urls) |-> "idle"]
    /\ browser = [i \in 1..Len(urls) |-> "none"]
    /\ prompt = [i \in 1..Len(urls) |-> <<>>]
    /\ n_fetch = [i \in 1..Len(urls) |-> 0]
    /\ n_call = [i \in 1..Len(urls) |-> 0]
    /\ ret = [i \in 1..Len(urls) |-> None]
    /\ done_order = <<>>
    /\ results = <<>>
    /\ output = <<>>

NextMethod ==
    \/ \E i \in Idx : PipelineStep(i)
    \/ GatherRaises
    \/ GatherReturns
    \/ PrintBlock

SpecMethod == InitMethod /\ [][NextMethod]_vars

(***************************************************************************)
(* Properties of the pipeline stages.                                      *)
(***************************************************************************)
FetchOrExtractErrors == {"ClientError", "WebDriverException", "TypeError"}

\* C11: a Target's model call is made only after its fetch has read a page
\* and the extraction has stored title and text; when the fetch or the
\* extraction raised, no model call is made for that Target.
C11_StagesOrdered ==
    \A i \in Idx :
        /\ (n_call[i] > 0 \/ prompt[i] # <<>>) =>
               /\ n_fetch[i] > 0
               /\ content[i] # <<>>
               /\ HasBody(content[i][1])
               /\ wb[i].text # None
        /\ (err[i] \in FetchOrExtractErrors \/ thr[i] = "raised") =>
               /\ n_call[i] = 0
               /\ prompt[i] = <<>>
               /\ pc[i] \notin {"model", "done"}

\* C11 witness: one pipeline's extraction raised and no call was made for
\* it, another's call was made after its page was read and extracted.
C11_Witness ==
    \E i, j \in Idx :
        /\ err[i] = "TypeError"
        /\ content[i] # <<>>
        /\ n_call[i] = 0
        /\ pc[j] = "model"
        /\ n_call[j] = 1
        /\ wb[j].text = <<"H", "i">>

\* C12: no retry: each Target begins at most one fetch (one GET request or
\* one browser launch) and makes at most one model call, whether the stage
\* succeeds or fails.
C12_NoRetry ==
    \A i \in Idx : n_fetch[i] <= 1 /\ n_call[i] <= 1

\* C12 witness: the run has ended on a failed model call and on a failed
\* fetch, each Target with one fetch and at most one call.
C12_Witness ==
    /\ main_pc = "raised"
    /\ \E i, j \in Idx :
         /\ err[i] = "APIError"
         /\ n_fetch[i] = 1
         /\ n_call[i] = 1
         /\ err[j] = "ClientError"
         /\ n_fetch[j] = 1
         /\ n_call[j] = 0

Finished(i) == i \in Idx /\ pc[i] \in {"done", "raised", "cancelled"}

\* C13: whichever pipeline h hangs (its fetch or model call never answers),
\* every other pipeline whose own fetch and model call do answer runs to its
\* end.
C13_HungPipelineBlocksNoOther ==
    \A h \in 1..MaxUrls :
        (\A i \in (1..MaxUrls) \ {h} : WF_vars(PipelineStep(i)))
            => \A i \in (1..MaxUrls) \ {h} : [](i \in Idx => <>Finished(i))

\* C13 witness: the first pipeline is still suspended in its fetch (request
\* unanswered, or browser in its settle delay) and the second has completed.
C13_Witness ==
    /\ Len(wb) >= 2
    /\ main_pc = "gather"
    /\ \/ pc[1] = "get"
       \/ pc[1] = "executor" /\ thr[1] = "sleep"
    /\ pc[2] = "done"

\* C14: a Website's title and text are the ones extracted from the page its
\* own pipeline read, its summarized is its own task's result and its prompt
\* holds its own title and text; a step changes a Website only when it is a
\* step of that Website's pipeline, and never its url or model.
C14_PipelinesIsolated ==
    /\ [](\A i \in Idx :
            /\ wb[i].text # None =>
                   /\ content[i] # <<>>
                   /\ wb[i].title = beautify(content[i][1]).title
                   /\ wb[i].text = beautify(content[i][1]).text
            /\ prompt[i] # <<>> =>
                   {prompt[i][2].content[3], prompt[i][2].content[7]}
                       = {wb[i].title, wb[i].text}
            /\ wb[i].summarized \in {None, ret[i]})
    /\ [][\A i \in Idx :
            /\ wb'[i].url = wb[i].url
            /\ wb'[i].model = wb[i].model
            /\ wb'[i] # wb[i] => pc'[i] # pc[i] \/ thr'[i] # thr[i]]_vars

\* C14 witness: two pipelines read different pages and each sent a prompt.
C14_Witness ==
    /\ Len(wb) >= 2
    /\ content[1] # <<>>
    /\ content[2] # <<>>
    /\ content[1] # content[2]
    /\ prompt[1] # <<>>
    /\ prompt[2] # <<>>
    /\ wb[1].title # wb[2].title
    /\ wb[1].text # wb[2].text

\* C15: with a scrape method other than "requests" or "selenium" every
\* started scrape_and_summarize has raised the invalid-method error with no
\* fetch and no model call made, and nothing catches it: nothing is printed.
C15_InvalidMethodRaisesFirst ==
    scrape_method \notin {"requests", "selenium"} =>
        /\ \A i \in Idx :
             /\ n_fetch[i] = 0
             /\ n_call[i] = 0
             /\ content[i] = <<>>
             /\ prompt[i] = <<>>
             /\ thr[i] = "idle"
             /\ browser[i] = "none"
             /\ pc[i] # "created" => pc[i] = "raised" /\ err[i] = "ValueError"
        /\ main_pc \in {"gather", "raised"}
        /\ output = <<>>

\* C15 witness: the method is "curl", every task raised ValueError and the
\* error left main().
C15_Witness ==
    /\ scrape_method = "curl"
    /\ main_pc = "raised"
    /\ wb # <<>>
    /\ \A i \in Idx : pc[i] = "raised" /\ err[i] = "ValueError"

HasTitle(doc) == FindFirst(doc, "title") # <<>>

\* C16: once markup with no title element has been extracted, the title
\* stored on the Website is "No title found" (not None), and a prompt built
\* for it holds that sentinel.
C16_NoTitleYieldsSentinel ==
    \A i \in Idx :
        (content[i] # <<>> /\ ~HasTitle(content[i][1])) =>
            /\ wb[i].title = NO_TITLE_FOUND
            /\ prompt[i] # <<>> =>
                   NO_TITLE_FOUND \in {prompt[i][2].content[3],
                                       prompt[i][2].content[7]}

=============================================================================
